---- MODULE Spec2Model ----
(***************************************************************************)
(* Ops Tracker: the Project -> Subject -> Lesion -> Measurement store and  *)
(* the two analytics handlers over it, project_analytics ("summarize") and *)
(* lesion_change ("compute_change").                                       *)
(*                                                                         *)
(* Tables are sets of rows.  Only the columns the handlers read are kept:  *)
(* name, subject_code and lesion_label decide nothing but the duplicate    *)
(* outcome of a create, which is kept as a possible outcome.  Floats are   *)
(* modelled exactly: a diameter is a whole number of millimetres, a        *)
(* confidence a whole number of hundredths, and a quotient is a fraction   *)
(* in lowest terms (rounding of the float arithmetic is not modelled).     *)
(* An optional value is <<>> when it is None and <<x>> when it is x.       *)
(***************************************************************************)
EXTENDS Integers, Sequences, FiniteSets, TLC

VARIABLES projects, subjects, lesions, measurements, nextId, call, resp

vars == <<projects, subjects, lesions, measurements, nextId, call, resp>>
store == <<projects, subjects, lesions, measurements, nextId>>

(* ------------------------------ bounds -------------------------------- *)
\* How many rows each table is ever given, and how many clock readings there
\* are: in Spec (both analytics calls over two projects), in SpecChange and
\* SpecChangeRace (lesion_change over the measurements of two lesions), in
\* SpecRace (project_analytics racing with writes) and in SpecDist
\* (project_analytics over three lesions and three measurements), and in
\* SpecIso (writes under one of two projects, each with a subtree).
MaxProjects == 2
MaxSubjects == 2
MaxLesions == 2
MaxMeasurements == 2
MaxTime == 2

ChangeMaxProjects == 1
ChangeMaxSubjects == 1
ChangeMaxLesions == 2
ChangeMaxMeasurements == 3
ChangeMaxTime == 3

RaceMaxProjects == 2
RaceMaxSubjects == 1
RaceMaxLesions == 1
RaceMaxMeasurements == 2
RaceMaxTime == 1

DistMaxProjects == 1
DistMaxSubjects == 1
DistMaxLesions == 3
DistMaxMeasurements == 3
DistMaxTime == 1

IsoMaxProjects == 2
IsoMaxSubjects == 2
IsoMaxLesions == 2
IsoMaxMeasurements == 2
IsoMaxTime == 1

(* ------------------------------ inputs -------------------------------- *)
None == <<>>
Some(x) == <<x>>

\* LesionMeasurementCreate: timepoint, longest_diameter_mm (ge=0, in
\* millimetres) and confidence (ge=0, le=1, in hundredths; the default is 1.0).
Payload(timepoint, longest_diameter_mm, confidence) ==
    [timepoint |-> timepoint, longest_diameter_mm |-> longest_diameter_mm,
     confidence |-> confidence]

\* What the clients of a specification send and the clock readings it has.
\* Lesion.modality is nullable and LesionCreate.modality defaults to None;
\* times are readings of the database clock (server_default=func.now()).
Inputs ==
    [projects |-> MaxProjects, subjects |-> MaxSubjects,
     lesions |-> MaxLesions, measurements |-> MaxMeasurements,
     modalities |-> {None, Some("CT")},
     payloads |-> {Payload("baseline", 20, 100), Payload("week_6", 24, 50)},
     times |-> 1..MaxTime]

ChangeInputs ==
    [projects |-> ChangeMaxProjects, subjects |-> ChangeMaxSubjects,
     lesions |-> ChangeMaxLesions, measurements |-> ChangeMaxMeasurements,
     modalities |-> {None},
     payloads |-> {Payload("baseline", 0, 100), Payload("baseline", 20, 100),
                   Payload("week_6", 24, 100), Payload("week_12", 15, 100)},
     times |-> 1..ChangeMaxTime]

RaceInputs ==
    [projects |-> RaceMaxProjects, subjects |-> RaceMaxSubjects,
     lesions |-> RaceMaxLesions, measurements |-> RaceMaxMeasurements,
     modalities |-> {None, Some("CT")},
     payloads |-> {Payload("baseline", 20, 100), Payload("week_6", 24, 50)},
     times |-> 1..RaceMaxTime]

DistInputs ==
    [projects |-> DistMaxProjects, subjects |-> DistMaxSubjects,
     lesions |-> DistMaxLesions, measurements |-> DistMaxMeasurements,
     modalities |-> {None, Some("CT"), Some("MRI")},
     payloads |-> {Payload("baseline", 20, 100), Payload("week_6", 24, 100)},
     times |-> 1..DistMaxTime]

IsoInputs ==
    [projects |-> IsoMaxProjects, subjects |-> IsoMaxSubjects,
     lesions |-> IsoMaxLesions, measurements |-> IsoMaxMeasurements,
     modalities |-> {Some("CT")},
     payloads |-> {Payload("baseline", 20, 100), Payload("week_6", 24, 50)},
     times |-> 1..IsoMaxTime]

(* ----------------------------- arithmetic ----------------------------- *)
Abs(n) == IF n < 0 THEN -n ELSE n

RECURSIVE Gcd(_, _)
Gcd(a, b) == IF b = 0 THEN a ELSE Gcd(b, a % b)

\* The quotient n / d, d > 0, as a fraction in lowest terms.
Frac(n, d) ==
    LET g == Gcd(Abs(n), d)
    IN  [num |-> n \div g, den |-> d \div g]

\* f * k for a fraction f and an integer k.
FracTimes(f, k) == Frac(f.num * k, f.den)

\* SUM(confidence) over a set of measurement rows.
RECURSIVE SumConfidence(_)
SumConfidence(rows) ==
    IF rows = {} THEN 0
    ELSE LET r == CHOOSE x \in rows : TRUE
         IN  r.confidence + SumConfidence(rows \ {r})

SetMin(S) == CHOOSE x \in S : \A y \in S : x <= y
SetMax(S) == CHOOSE x \in S : \A y \in S : x >= y

(* ------------------------------ queries ------------------------------- *)
\* Every order in which a result set can come back: all its rows, once each.
ResultOrders(rows) ==
    LET n == Cardinality(rows)
    IN  {f \in [1..n -> rows] : \A i, j \in 1..n : i # j => f[i] # f[j]}

\* ORDER BY key ASC, key a function of the row: rows with equal keys come
\* back in any order.
OrderByAsc(rows, key) ==
    {f \in ResultOrders(rows) :
        \A i \in 1..(Len(f) - 1) : key[f[i]] <= key[f[i + 1]]}

\* ORDER BY key DESC.
OrderByDesc(rows, key) ==
    {f \in ResultOrders(rows) :
        \A i \in 1..(Len(f) - 1) : key[f[i]] >= key[f[i + 1]]}

\* db.get(Model, id): the row with that primary key, or nothing.
GetRow(table, id) == {r \in table : r.id = id}
Exists(table, id) == GetRow(table, id) # {}

\* The rows that survive ON DELETE CASCADE once their parents are gone.
SubjectsUnder(ps) == {s \in subjects : s.project_id \in ps}
LesionsUnder(ss) == {l \in lesions : \E s \in ss : s.id = l.subject_id}
MeasurementsUnder(ls) == {m \in measurements : \E l \in ls : l.id = m.lesion_id}

(* ----------------------------- responses ------------------------------ *)
NoResponse == [op |-> "none", status |-> 0]
Response(op, status) == [op |-> op, status |-> status]
\* An analytics response, with the path parameter of the request it answers.
NotFound(op, id) == [op |-> op, status |-> 404, id |-> id]
Ok(op, id, body) == [op |-> op, status |-> 200, id |-> id, body |-> body]
Idle == [op |-> "idle"]

(* ------------------------------- Init --------------------------------- *)
\* The tables as create_all leaves them, and no request in progress.
Init ==
    /\ projects = {}
    /\ subjects = {}
    /\ lesions = {}
    /\ measurements = {}
    /\ nextId = [projects |-> 1, subjects |-> 1, lesions |-> 1, measurements |-> 1]
    /\ call = Idle
    /\ resp = NoResponse

(* ------------------------- projects: writes --------------------------- *)
\* POST /projects/.  dup: the payload's name is that of an existing project.
create_project(dup) ==
    /\ IF dup
       THEN /\ projects # {}
            /\ resp' = Response("create_project", 400)
            /\ UNCHANGED store
       ELSE /\ projects' = projects \cup {nextId.projects}
            /\ nextId' = [nextId EXCEPT !.projects = @ + 1]
            /\ resp' = Response("create_project", 201)
            /\ UNCHANGED <<subjects, lesions, measurements>>
    /\ UNCHANGED call

\* delete_project with foreign keys that do not cascade.
delete_project_no_cascade(project_id) ==
    /\ IF project_id \notin projects
       THEN /\ resp' = Response("delete_project", 404)
            /\ UNCHANGED store
       ELSE /\ projects' = projects \ {project_id}
            /\ resp' = Response("delete_project", 204)
            /\ UNCHANGED <<subjects, lesions, measurements, nextId>>
    /\ UNCHANGED call

\* DELETE /projects/{project_id}; the foreign keys cascade.
delete_project(project_id) ==
    /\ IF project_id \notin projects
       THEN /\ resp' = Response("delete_project", 404)
            /\ UNCHANGED store
       ELSE /\ projects' = projects \ {project_id}
            /\ subjects' = SubjectsUnder(projects')
            /\ lesions' = LesionsUnder(subjects')
            /\ measurements' = MeasurementsUnder(lesions')
            /\ resp' = Response("delete_project", 204)
            /\ UNCHANGED nextId
    /\ UNCHANGED call

\* DELETE /projects/.
delete_all_projects ==
    /\ projects' = {}
    /\ subjects' = SubjectsUnder(projects')
    /\ lesions' = LesionsUnder(subjects')
    /\ measurements' = MeasurementsUnder(lesions')
    /\ resp' = Response("delete_all_projects", 204)
    /\ UNCHANGED <<nextId, call>>

(* ------------------------- subjects: writes --------------------------- *)
\* POST /projects/{project_id}/subjects.  dup: the payload's subject_code is
\* that of a subject the project already has (IntegrityError on commit).
create_subject(project_id, dup) ==
    /\ IF project_id \notin projects
       THEN /\ resp' = Response("create_subject", 404)
            /\ UNCHANGED store
       ELSE IF dup
       THEN /\ SubjectsUnder({project_id}) # {}
            /\ resp' = Response("create_subject", 409)
            /\ UNCHANGED store
       ELSE /\ subjects' = subjects \cup
                   {[id |-> nextId.subjects, project_id |-> project_id]}
            /\ nextId' = [nextId EXCEPT !.subjects = @ + 1]
            /\ resp' = Response("create_subject", 201)
            /\ UNCHANGED <<projects, lesions, measurements>>
    /\ UNCHANGED call

\* DELETE /subjects/{subject_id}.
delete_subject(subject_id) ==
    /\ IF ~Exists(subjects, subject_id)
       THEN /\ resp' = Response("delete_subject", 404)
            /\ UNCHANGED store
       ELSE /\ subjects' = subjects \ GetRow(subjects, subject_id)
            /\ lesions' = LesionsUnder(subjects')
            /\ measurements' = MeasurementsUnder(lesions')
            /\ resp' = Response("delete_subject", 204)
            /\ UNCHANGED <<projects, nextId>>
    /\ UNCHANGED call

(* -------------------------- lesions: writes --------------------------- *)
\* POST /subjects/{subject_id}/lesions.  dup: the payload's lesion_label is
\* that of a lesion the subject already has (IntegrityError on commit).
create_lesion(subject_id, modality, dup) ==
    /\ IF ~Exists(subjects, subject_id)
       THEN /\ resp' = Response("create_lesion", 404)
            /\ UNCHANGED store
       ELSE IF dup
       THEN /\ LesionsUnder(GetRow(subjects, subject_id)) # {}
            /\ resp' = Response("create_lesion", 409)
            /\ UNCHANGED store
       ELSE /\ lesions' = lesions \cup
                   {[id |-> nextId.lesions, subject_id |-> subject_id,
                     modality |-> modality]}
            /\ nextId' = [nextId EXCEPT !.lesions = @ + 1]
            /\ resp' = Response("create_lesion", 201)
            /\ UNCHANGED <<projects, subjects, measurements>>
    /\ UNCHANGED call

\* PATCH /lesions/{lesion_id}.  data: model_dump(exclude_unset=True), here
\* <<>> when the payload leaves modality unset and <<v>> when it sets it to v.
update_lesion(lesion_id, data) ==
    /\ IF ~Exists(lesions, lesion_id)
       THEN /\ resp' = Response("update_lesion", 404)
            /\ UNCHANGED store
       ELSE /\ lesions' = {IF l.id = lesion_id /\ data # <<>>
                           THEN [l EXCEPT !.modality = data[1]]
                           ELSE l : l \in lesions}
            /\ resp' = Response("update_lesion", 200)
            /\ UNCHANGED <<projects, subjects, measurements, nextId>>
    /\ UNCHANGED call

\* DELETE /lesions/{lesion_id}.
delete_lesion(lesion_id) ==
    /\ IF ~Exists(lesions, lesion_id)
       THEN /\ resp' = Response("delete_lesion", 404)
            /\ UNCHANGED store
       ELSE /\ lesions' = lesions \ GetRow(lesions, lesion_id)
            /\ measurements' = MeasurementsUnder(lesions')
            /\ resp' = Response("delete_lesion", 204)
            /\ UNCHANGED <<projects, subjects, nextId>>
    /\ UNCHANGED call

(* ------------------------ measurements: writes ------------------------ *)
\* create_measurement on a table without uq_measurement_lesion_timepoint.
create_measurement_not_unique(lesion_id, payload, now) ==
    /\ IF ~Exists(lesions, lesion_id)
       THEN /\ resp' = Response("create_measurement", 404)
            /\ UNCHANGED store
       ELSE /\ measurements' = measurements \cup
                   {[id |-> nextId.measurements, lesion_id |-> lesion_id,
                     timepoint |-> payload.timepoint, measured_at |-> now,
                     longest_diameter_mm |-> payload.longest_diameter_mm,
                     confidence |-> payload.confidence]}
            /\ nextId' = [nextId EXCEPT !.measurements = @ + 1]
            /\ resp' = Response("create_measurement", 201)
            /\ UNCHANGED <<projects, subjects, lesions>>
    /\ UNCHANGED call

\* POST /lesions/{lesion_id}/measurements.  measured_at is not in the
\* payload: the server default now() fills it in.
create_measurement(lesion_id, payload, now) ==
    /\ IF ~Exists(lesions, lesion_id)
       THEN /\ resp' = Response("create_measurement", 404)
            /\ UNCHANGED store
       ELSE IF \E m \in measurements :
                   m.lesion_id = lesion_id /\ m.timepoint = payload.timepoint
       THEN /\ resp' = Response("create_measurement", 409)
            /\ UNCHANGED store
       ELSE /\ measurements' = measurements \cup
                   {[id |-> nextId.measurements, lesion_id |-> lesion_id,
                     timepoint |-> payload.timepoint, measured_at |-> now,
                     longest_diameter_mm |-> payload.longest_diameter_mm,
                     confidence |-> payload.confidence]}
            /\ nextId' = [nextId EXCEPT !.measurements = @ + 1]
            /\ resp' = Response("create_measurement", 201)
            /\ UNCHANGED <<projects, subjects, lesions>>
    /\ UNCHANGED call

\* PATCH /measurements/{measurement_id}.  The handler reads payload.size_mm
\* and payload.measured_at, which LesionMeasurementCreate does not have: the
\* AttributeError ends the request before anything is written.
update_measurement(measurement_id) ==
    /\ resp' = Response("update_measurement",
                        IF ~Exists(measurements, measurement_id) THEN 404 ELSE 500)
    /\ UNCHANGED <<store, call>>

\* DELETE /measurements/{measurement_id}.
delete_measurement(measurement_id) ==
    /\ IF ~Exists(measurements, measurement_id)
       THEN /\ resp' = Response("delete_measurement", 404)
            /\ UNCHANGED store
       ELSE /\ measurements' = measurements \ GetRow(measurements, measurement_id)
            /\ resp' = Response("delete_measurement", 204)
            /\ UNCHANGED <<projects, subjects, lesions, nextId>>
    /\ UNCHANGED call

(* --------------------- lesion_change (compute_change) ----------------- *)
\* rows[0] and rows[-1] of the ordered result.
Baseline(rows) == rows[1]
Latest(rows) == rows[Len(rows)]

\* PctChange with pct starting at 0.0 instead of None.
PctChangeZeroDefault(baseline, latest) ==
    IF baseline.longest_diameter_mm # 0 /\ baseline.longest_diameter_mm > 0
    THEN Some(FracTimes(Frac(latest.longest_diameter_mm - baseline.longest_diameter_mm,
                             baseline.longest_diameter_mm), 100))
    ELSE Some(Frac(0, 1))

\* PctChange dividing by the latest diameter instead of the baseline's.
PctChangeOverLatest(baseline, latest) ==
    IF baseline.longest_diameter_mm # 0 /\ baseline.longest_diameter_mm > 0
    THEN Some(FracTimes(Frac(latest.longest_diameter_mm - baseline.longest_diameter_mm,
                             latest.longest_diameter_mm), 100))
    ELSE None

\* pct: None unless the baseline diameter is truthy and > 0.
PctChange(baseline, latest) ==
    IF baseline.longest_diameter_mm # 0 /\ baseline.longest_diameter_mm > 0
    THEN Some(FracTimes(Frac(latest.longest_diameter_mm - baseline.longest_diameter_mm,
                             baseline.longest_diameter_mm), 100))
    ELSE None

\* LesionChange answering a single row as it answers none.
LesionChangeSingleAsEmpty(lesion_id, rows) ==
    IF Len(rows) <= 1
    THEN [lesion_id |-> lesion_id,
          baseline_measured_at |-> None, baseline_longest_mm |-> None,
          latest_measured_at |-> None, latest_longest_mm |-> None,
          pct_change_longest |-> None]
    ELSE [lesion_id |-> lesion_id,
          baseline_measured_at |-> Some(Baseline(rows).measured_at),
          baseline_longest_mm |-> Some(Baseline(rows).longest_diameter_mm),
          latest_measured_at |-> Some(Latest(rows).measured_at),
          latest_longest_mm |-> Some(Latest(rows).longest_diameter_mm),
          pct_change_longest |-> PctChange(Baseline(rows), Latest(rows))]

\* The LesionChange the handler builds from the rows its query returned.
LesionChange(lesion_id, rows) ==
    IF rows = <<>>
    THEN [lesion_id |-> lesion_id,
          baseline_measured_at |-> None, baseline_longest_mm |-> None,
          latest_measured_at |-> None, latest_longest_mm |-> None,
          pct_change_longest |-> None]
    ELSE [lesion_id |-> lesion_id,
          baseline_measured_at |-> Some(Baseline(rows).measured_at),
          baseline_longest_mm |-> Some(Baseline(rows).longest_diameter_mm),
          latest_measured_at |-> Some(Latest(rows).measured_at),
          latest_longest_mm |-> Some(Latest(rows).longest_diameter_mm),
          pct_change_longest |-> PctChange(Baseline(rows), Latest(rows))]

\* MeasurementRows with the rows labelled "baseline" first, whenever measured.
MeasurementRowsByLabel(lesion_id) ==
    LET rows == {m \in measurements : m.lesion_id = lesion_id}
    IN  OrderByAsc(rows, [m \in rows |-> IF m.timepoint = "baseline"
                                         THEN 0 ELSE m.measured_at])

\* select(LesionMeasurement).where(lesion_id == ...).order_by(measured_at.asc())
MeasurementRows(lesion_id) ==
    LET rows == {m \in measurements : m.lesion_id = lesion_id}
    IN  OrderByAsc(rows, [m \in rows |-> m.measured_at])

\* lesion_change_get without its existence check.
lesion_change_get_unchecked(lesion_id) ==
    /\ call = Idle
    /\ resp' = NoResponse
    /\ call' = [op |-> "lesion_change", lesion_id |-> lesion_id]
    /\ UNCHANGED store

\* GET /lesions/{lesion_id}/analytics/change, its existence check.
lesion_change_get(lesion_id) ==
    /\ call = Idle
    /\ IF ~Exists(lesions, lesion_id)
       THEN /\ resp' = NotFound("lesion_change", lesion_id)
            /\ call' = Idle
       ELSE /\ resp' = NoResponse
            /\ call' = [op |-> "lesion_change", lesion_id |-> lesion_id]
    /\ UNCHANGED store

\* lesion_change_rows answering 404 when the query returns no rows.
lesion_change_rows_or_404 ==
    /\ call.op = "lesion_change"
    /\ \E rows \in MeasurementRows(call.lesion_id) :
          resp' = IF rows = <<>>
                  THEN NotFound("lesion_change", call.lesion_id)
                  ELSE Ok("lesion_change", call.lesion_id,
                          LesionChange(call.lesion_id, rows))
    /\ call' = Idle
    /\ UNCHANGED store

\* Its query, and the response built from the rows.
lesion_change_rows ==
    /\ call.op = "lesion_change"
    /\ \E rows \in MeasurementRows(call.lesion_id) :
          resp' = Ok("lesion_change", call.lesion_id,
                     LesionChange(call.lesion_id, rows))
    /\ call' = Idle
    /\ UNCHANGED store

(* -------------------- project_analytics (summarize) ------------------- *)
\* ProjectSubjects without the filter on the project.
ProjectSubjectsOfAll(project_id) == subjects

\* Subject WHERE project_id == ...
ProjectSubjects(project_id) == {s \in subjects : s.project_id = project_id}

\* Lesion JOIN Subject WHERE Subject.project_id == ...
ProjectLesions(project_id) ==
    {l \in lesions : \E s \in subjects :
        s.id = l.subject_id /\ s.project_id = project_id}

\* ProjectMeasurements without the filter on the project.
ProjectMeasurementsOfAll(project_id) == measurements

\* LesionMeasurement JOIN Lesion JOIN Subject WHERE Subject.project_id == ...
ProjectMeasurements(project_id) ==
    {m \in measurements : \E l \in lesions : \E s \in subjects :
        /\ l.id = m.lesion_id
        /\ s.id = l.subject_id
        /\ s.project_id = project_id}

\* GROUP BY a column (a function of the row) with count(*): one
\* (value, count) row per value of the column, NULL being a value.
GroupCount(rows, column) ==
    {[value |-> v, count |-> Cardinality({r \in rows : column[r] = v})] :
        v \in {column[r] : r \in rows}}

\* CountDesc ordering by count ascending.
CountAsc(groups) == OrderByAsc(groups, [g \in groups |-> g.count])

\* ... ORDER BY count(*) DESC.
CountDesc(groups) == OrderByDesc(groups, [g \in groups |-> g.count])

\* ModalityRows leaving the lesions without a modality out.
ModalityRowsNotNull(project_id) ==
    LET rows == {l \in ProjectLesions(project_id) : l.modality # None}
    IN  CountDesc(GroupCount(rows, [l \in rows |-> l.modality]))

\* select(Lesion.modality, count()) ... group_by(Lesion.modality)
ModalityRows(project_id) ==
    LET rows == ProjectLesions(project_id)
    IN  CountDesc(GroupCount(rows, [l \in rows |-> l.modality]))

\* select(LesionMeasurement.timepoint, count()) ... group_by(timepoint)
TimepointRows(project_id) ==
    LET rows == ProjectMeasurements(project_id)
    IN  CountDesc(GroupCount(rows, [m \in rows |-> m.timepoint]))

\* MinMax with the two columns of its row exchanged.
MinMaxSwapped(rows) ==
    IF rows = {} THEN <<None, None>>
    ELSE <<Some(SetMax({m.measured_at : m \in rows})),
           Some(SetMin({m.measured_at : m \in rows}))>>

\* min(measured_at), max(measured_at): one row, both NULL over no rows.
MinMax(rows) ==
    IF rows = {} THEN <<None, None>>
    ELSE <<Some(SetMin({m.measured_at : m \in rows})),
           Some(SetMax({m.measured_at : m \in rows}))>>

\* AvgConfidence answering 0 over no rows.
AvgConfidenceOrZero(rows) ==
    IF rows = {} THEN Some(Frac(0, 1))
    ELSE Some(Frac(SumConfidence(rows), Cardinality(rows)))

\* avg(confidence): NULL over no rows.
AvgConfidence(rows) ==
    IF rows = {} THEN None
    ELSE Some(Frac(SumConfidence(rows), Cardinality(rows)))

\* The ProjectAnalytics the handler builds from its query results.
ProjectAnalytics(c, avg_conf) ==
    [project_id |-> c.project_id,
     subjects |-> c.subjects_ct,
     lesions |-> c.lesions_ct,
     measurements |-> c.measurements_ct,
     modalities |-> c.modality_rows,
     timepoints |-> c.timepoint_rows,
     measured_at_range |-> [start |-> c.min_max[1], end |-> c.min_max[2]],
     avg_confidence |-> avg_conf]

\* The handler's next statement, with the result of the last one kept.
Step(pc, name, value) == (name :> value) @@ [call EXCEPT !.pc = pc]

\* project_analytics_get without its existence check.
project_analytics_get_unchecked(project_id) ==
    /\ call = Idle
    /\ resp' = NoResponse
    /\ call' = [op |-> "project_analytics", project_id |-> project_id,
                pc |-> "subjects_ct"]
    /\ UNCHANGED store

\* project_analytics_get inserting the project it does not find.
project_analytics_get_or_create(project_id) ==
    /\ call = Idle
    /\ resp' = NoResponse
    /\ call' = [op |-> "project_analytics", project_id |-> project_id,
                pc |-> "subjects_ct"]
    /\ projects' = projects \cup {project_id}
    /\ UNCHANGED <<subjects, lesions, measurements, nextId>>

\* GET /projects/{project_id}/analytics/overview, its existence check.
project_analytics_get(project_id) ==
    /\ call = Idle
    /\ IF project_id \notin projects
       THEN /\ resp' = NotFound("project_analytics", project_id)
            /\ call' = Idle
       ELSE /\ resp' = NoResponse
            /\ call' = [op |-> "project_analytics", project_id |-> project_id,
                        pc |-> "subjects_ct"]
    /\ UNCHANGED store

\* project_analytics_subjects_ct looking the project up again first.
project_analytics_subjects_ct_rechecked ==
    /\ call.op = "project_analytics" /\ call.pc = "subjects_ct"
    /\ IF call.project_id \notin projects
       THEN /\ resp' = NotFound("project_analytics", call.project_id)
            /\ call' = Idle
       ELSE /\ call' = Step("lesions_ct", "subjects_ct",
                            Cardinality(ProjectSubjects(call.project_id)))
            /\ UNCHANGED resp
    /\ UNCHANGED store

project_analytics_subjects_ct ==
    /\ call.op = "project_analytics" /\ call.pc = "subjects_ct"
    /\ call' = Step("lesions_ct", "subjects_ct",
                    Cardinality(ProjectSubjects(call.project_id)))
    /\ UNCHANGED <<store, resp>>

project_analytics_lesions_ct ==
    /\ call.op = "project_analytics" /\ call.pc = "lesions_ct"
    /\ call' = Step("measurements_ct", "lesions_ct",
                    Cardinality(ProjectLesions(call.project_id)))
    /\ UNCHANGED <<store, resp>>

project_analytics_measurements_ct ==
    /\ call.op = "project_analytics" /\ call.pc = "measurements_ct"
    /\ call' = Step("modality_rows", "measurements_ct",
                    Cardinality(ProjectMeasurements(call.project_id)))
    /\ UNCHANGED <<store, resp>>

project_analytics_modality_rows ==
    /\ call.op = "project_analytics" /\ call.pc = "modality_rows"
    /\ \E rows \in ModalityRows(call.project_id) :
          call' = Step("timepoint_rows", "modality_rows", rows)
    /\ UNCHANGED <<store, resp>>

project_analytics_timepoint_rows ==
    /\ call.op = "project_analytics" /\ call.pc = "timepoint_rows"
    /\ \E rows \in TimepointRows(call.project_id) :
          call' = Step("min_max", "timepoint_rows", rows)
    /\ UNCHANGED <<store, resp>>

project_analytics_min_max ==
    /\ call.op = "project_analytics" /\ call.pc = "min_max"
    /\ call' = Step("avg_conf", "min_max",
                    MinMax(ProjectMeasurements(call.project_id)))
    /\ UNCHANGED <<store, resp>>

\* project_analytics_avg_conf taking the end of the range from a query of
\* its own instead of the row min_max holds.
project_analytics_avg_conf_late_max ==
    /\ call.op = "project_analytics" /\ call.pc = "avg_conf"
    /\ resp' = Ok("project_analytics", call.project_id,
                  [ProjectAnalytics(call,
                       AvgConfidence(ProjectMeasurements(call.project_id)))
                   EXCEPT !.measured_at_range.end =
                       MinMax(ProjectMeasurements(call.project_id))[2]])
    /\ call' = Idle
    /\ UNCHANGED store

\* The last query, and the response built from all seven results.
project_analytics_avg_conf ==
    /\ call.op = "project_analytics" /\ call.pc = "avg_conf"
    /\ resp' = Ok("project_analytics", call.project_id,
                  ProjectAnalytics(call,
                      AvgConfidence(ProjectMeasurements(call.project_id))))
    /\ call' = Idle
    /\ UNCHANGED store

(* ------------------------------- Next --------------------------------- *)
\* The id sequence of a table has not run past the bound on its inserts.
CanInsert(table, max) == nextId[table] <= max

\* When requests are served one at a time (serial), a write is served only
\* between two analytics calls; otherwise it may commit between any two
\* statements of an analytics call (each statement reads what is committed).
Served(serial) == serial => call = Idle

\* The routers' writes, with the requests of the inputs in.
Write(in, serial) ==
    \/ \E dup \in BOOLEAN :
          /\ Served(serial)
          /\ dup \/ CanInsert("projects", in.projects)
          /\ create_project(dup)
    \/ \E p \in 1..in.projects : Served(serial) /\ delete_project(p)
    \/ Served(serial) /\ delete_all_projects
    \/ \E p \in 1..in.projects, dup \in BOOLEAN :
          /\ Served(serial)
          /\ dup \/ CanInsert("subjects", in.subjects)
          /\ create_subject(p, dup)
    \/ \E s \in 1..in.subjects : Served(serial) /\ delete_subject(s)
    \/ \E s \in 1..in.subjects, m \in in.modalities, dup \in BOOLEAN :
          /\ Served(serial)
          /\ dup \/ CanInsert("lesions", in.lesions)
          /\ create_lesion(s, m, dup)
    \/ \E l \in 1..in.lesions, data \in {<<>>} \cup {<<m>> : m \in in.modalities} :
          Served(serial) /\ update_lesion(l, data)
    \/ \E l \in 1..in.lesions : Served(serial) /\ delete_lesion(l)
    \/ \E l \in 1..in.lesions, payload \in in.payloads, now \in in.times :
          /\ Served(serial)
          /\ CanInsert("measurements", in.measurements)
          /\ create_measurement(l, payload, now)
    \/ \E m \in 1..in.measurements : Served(serial) /\ update_measurement(m)
    \/ \E m \in 1..in.measurements : Served(serial) /\ delete_measurement(m)

\* GET /lesions/{lesion_id}/analytics/change, statement by statement.
ReadChange(in) ==
    \/ \E l \in 1..in.lesions : lesion_change_get(l)
    \/ lesion_change_rows

\* GET /projects/{project_id}/analytics/overview, statement by statement.
ReadOverview(in) ==
    \/ \E p \in 1..in.projects : project_analytics_get(p)
    \/ project_analytics_subjects_ct
    \/ project_analytics_lesions_ct
    \/ project_analytics_measurements_ct
    \/ project_analytics_modality_rows
    \/ project_analytics_timepoint_rows
    \/ project_analytics_min_max
    \/ project_analytics_avg_conf

Next ==
    \/ Write(Inputs, TRUE)
    \/ ReadOverview(Inputs)
    \/ ReadChange(Inputs)

NextChange ==
    \/ Write(ChangeInputs, TRUE)
    \/ ReadChange(ChangeInputs)

NextDist ==
    \/ Write(DistInputs, TRUE)
    \/ ReadOverview(DistInputs)

\* lesion_change with writes committing between its two statements.
NextChangeRace ==
    \/ Write(ChangeInputs, FALSE)
    \/ ReadChange(ChangeInputs)

\* project_analytics with writes committing between its eight statements.
NextRace ==
    \/ Write(RaceInputs, FALSE)
    \/ ReadOverview(RaceInputs)

\* Both analytics calls with writes committing between their statements.
NextRaceBoth ==
    \/ Write(RaceInputs, FALSE)
    \/ ReadOverview(RaceInputs)
    \/ ReadChange(RaceInputs)

\* Both analytics calls over two projects that each have a subtree.
NextIso ==
    \/ Write(IsoInputs, TRUE)
    \/ ReadOverview(IsoInputs)
    \/ ReadChange(IsoInputs)

Spec == Init /\ [][Next]_vars
SpecIso == Init /\ [][NextIso]_vars
SpecRaceBoth == Init /\ [][NextRaceBoth]_vars
SpecRace == Init /\ [][NextRace]_vars
SpecChangeRace == Init /\ [][NextChangeRace]_vars
SpecChange == Init /\ [][NextChange]_vars
SpecDist == Init /\ [][NextDist]_vars

(* ============================ properties ============================== *)
\* Between two requests resp is the answer to the last one, and the tables
\* are those it was computed from: a write answers with its own response and
\* an analytics call starts by clearing resp.

(* --------------------------- lesion_change ---------------------------- *)
ChangeAnswered == resp.op = "lesion_change" /\ resp.status = 200
\* The measurements of the lesion the answered request names.
ChangeOf == {m \in measurements : m.lesion_id = resp.id}
Earliest(ms) == {m \in ms : \A x \in ms : m.measured_at <= x.measured_at}
LatestOf(ms) == {m \in ms : \A x \in ms : m.measured_at >= x.measured_at}
AllAbsent(lesion_id) ==
    [lesion_id |-> lesion_id,
     baseline_measured_at |-> None, baseline_longest_mm |-> None,
     latest_measured_at |-> None, latest_longest_mm |-> None,
     pct_change_longest |-> None]

\* C1: when a lesion has measurements, lesion_change answers 200 with the
\* baseline and latest timestamps and diameters present, and with
\* pct_change_longest absent whenever the baseline diameter it reports is 0,
\* hence whenever every earliest measurement has diameter 0, whatever the
\* latest diameter is.
C1_ZeroBaselineNoPct ==
    (resp.op = "lesion_change" /\ ChangeOf # {}) =>
        /\ resp.status = 200
        /\ resp.body.baseline_measured_at # None
        /\ resp.body.baseline_longest_mm # None
        /\ resp.body.latest_measured_at # None
        /\ resp.body.latest_longest_mm # None
        /\ resp.body.baseline_longest_mm = Some(0) =>
               resp.body.pct_change_longest = None
        /\ (\A m \in Earliest(ChangeOf) : m.longest_diameter_mm = 0) =>
               resp.body.pct_change_longest = None

\* Witness of C1 (scenario B): baseline 0 mm, latest 15 mm, answered.
C1_Witness ==
    /\ ChangeAnswered
    /\ Cardinality(ChangeOf) = 2
    /\ resp.body.baseline_longest_mm = Some(0)
    /\ resp.body.latest_longest_mm = Some(15)
    /\ resp.body.baseline_measured_at # resp.body.latest_measured_at

\* C2: the answer's baseline is a measurement of the lesion with the least
\* measured_at and its latest one with the greatest (two different rows when
\* the lesion has more than one), their timestamps and diameters are copied
\* unchanged, and when the baseline diameter is > 0 pct_change_longest is
\* (latest - baseline) / baseline * 100.
C2_PctFormula ==
    (ChangeAnswered /\ ChangeOf # {}) =>
        \E b \in Earliest(ChangeOf), l \in LatestOf(ChangeOf) :
            /\ Cardinality(ChangeOf) > 1 => b # l
            /\ resp.body.baseline_measured_at = Some(b.measured_at)
            /\ resp.body.baseline_longest_mm = Some(b.longest_diameter_mm)
            /\ resp.body.latest_measured_at = Some(l.measured_at)
            /\ resp.body.latest_longest_mm = Some(l.longest_diameter_mm)
            /\ b.longest_diameter_mm > 0 =>
                  /\ resp.body.pct_change_longest # None
                  /\ resp.body.pct_change_longest[1].den > 0
                  /\ resp.body.pct_change_longest[1].num * b.longest_diameter_mm
                       = (l.longest_diameter_mm - b.longest_diameter_mm) * 100
                           * resp.body.pct_change_longest[1].den

\* Witness of C2 (scenario A): baseline 20 mm, latest 24 mm, exactly 20 percent.
C2_Witness ==
    /\ ChangeAnswered
    /\ resp.body.baseline_longest_mm = Some(20)
    /\ resp.body.latest_longest_mm = Some(24)
    /\ resp.body.pct_change_longest = Some([num |-> 20, den |-> 1])
    /\ Cardinality(ChangeOf) = 3

\* C3 as stated: with exactly one measurement M the answer's baseline and
\* latest are both M and pct_change_longest is 0.
C3_SingleIsZero ==
    (resp.op = "lesion_change" /\ Cardinality(ChangeOf) = 1) =>
        \E m \in ChangeOf :
            /\ resp.status = 200
            /\ resp.body.baseline_measured_at = Some(m.measured_at)
            /\ resp.body.latest_measured_at = Some(m.measured_at)
            /\ resp.body.baseline_longest_mm = Some(m.longest_diameter_mm)
            /\ resp.body.latest_longest_mm = Some(m.longest_diameter_mm)
            /\ resp.body.pct_change_longest = Some(Frac(0, 1))

\* C3, amended: with exactly one measurement M the answer's baseline and
\* latest are both M, and pct_change_longest is 0 when M's diameter is > 0
\* and absent when it is 0.
C3_SingleIsZeroOrAbsent ==
    (resp.op = "lesion_change" /\ Cardinality(ChangeOf) = 1) =>
        \E m \in ChangeOf :
            /\ resp.status = 200
            /\ resp.body.baseline_measured_at = Some(m.measured_at)
            /\ resp.body.latest_measured_at = Some(m.measured_at)
            /\ resp.body.baseline_longest_mm = Some(m.longest_diameter_mm)
            /\ resp.body.latest_longest_mm = Some(m.longest_diameter_mm)
            /\ resp.body.pct_change_longest =
                  IF m.longest_diameter_mm > 0 THEN Some(Frac(0, 1)) ELSE None

\* Witness of C3: one measurement of 20 mm, answered with 0 percent, while
\* the other lesion has measurements of its own.
C3_Witness ==
    /\ ChangeAnswered
    /\ Cardinality(ChangeOf) = 1
    /\ resp.body.baseline_longest_mm = Some(20)
    /\ resp.body.pct_change_longest = Some(Frac(0, 1))
    /\ measurements # ChangeOf

\* C4: for an existing lesion without measurements lesion_change answers 200
\* with the lesion_id echoed and the five other fields absent.
C4_NoMeasurementsAllAbsent ==
    (resp.op = "lesion_change" /\ Exists(lesions, resp.id) /\ ChangeOf = {}) =>
        /\ resp.status = 200
        /\ resp.body = AllAbsent(resp.id)

\* Witness of C4: an answered lesion without measurements, beside a lesion
\* that has some.
C4_Witness ==
    /\ ChangeAnswered
    /\ Exists(lesions, resp.id)
    /\ ChangeOf = {}
    /\ measurements # {}

\* C9: even with writes committing between its statements, lesion_change
\* answers 404 exactly when no lesion has the id at its existence check: the
\* check answers 404 only for an id no lesion has and lets a call through
\* only for a lesion that exists, and a call that is through answers 200
\* whether or not the lesion has measurements.
C9_NotFoundIffNoLesion ==
    [][/\ (call = Idle /\ resp'.op = "lesion_change" /\ resp'.status = 404) =>
              ~Exists(lesions, resp'.id)
       /\ (call = Idle /\ call'.op = "lesion_change") =>
              Exists(lesions, call'.lesion_id)
       /\ (call.op = "lesion_change" /\ call' = Idle) =>
              /\ resp'.op = "lesion_change"
              /\ resp'.id = call.lesion_id
              /\ resp'.status = 200]_vars

\* Witness of C9: 404 for a lesion that was created and is gone with its
\* project, while another lesion is still there.
C9_Witness ==
    /\ resp.op = "lesion_change" /\ resp.status = 404
    /\ resp.id < nextId.lesions
    /\ projects = {}
    /\ nextId.measurements > 1

(* ------------------------- project_analytics -------------------------- *)
OverviewAnswered == resp.op = "project_analytics" /\ resp.status = 200
\* The subtree of the project the answered request names, by ownership.
SubtreeSubjects == SubjectsUnder({resp.id})
SubtreeLesions == LesionsUnder(SubtreeSubjects)
SubtreeMeasurements == MeasurementsUnder(SubtreeLesions)

RECURSIVE SumCounts(_)
SumCounts(rows) ==
    IF rows = <<>> THEN 0 ELSE Head(rows).count + SumCounts(Tail(rows))

DistinctValues(rows) ==
    \A i, j \in 1..Len(rows) : i # j => rows[i].value # rows[j].value

Descending(rows) ==
    \A i \in 1..(Len(rows) - 1) : rows[i].count >= rows[i + 1].count

EmptySummary(project_id) ==
    [project_id |-> project_id, subjects |-> 0, lesions |-> 0, measurements |-> 0,
     modalities |-> <<>>, timepoints |-> <<>>,
     measured_at_range |-> [start |-> None, end |-> None],
     avg_confidence |-> None]

\* C5: in an answer of project_analytics the counts of modalities sum to
\* lesions and the counts of timepoints sum to measurements; no value has two
\* entries; and every lesion of the subtree, one without a modality too, is
\* counted in the entry of its modality.
C5_CountsSumToTotals ==
    OverviewAnswered =>
        /\ SumCounts(resp.body.modalities) = resp.body.lesions
        /\ SumCounts(resp.body.timepoints) = resp.body.measurements
        /\ DistinctValues(resp.body.modalities)
        /\ DistinctValues(resp.body.timepoints)
        /\ \A l \in SubtreeLesions : \E i \in 1..Len(resp.body.modalities) :
              /\ resp.body.modalities[i].value = l.modality
              /\ resp.body.modalities[i].count =
                    Cardinality({x \in SubtreeLesions : x.modality = l.modality})

\* Witness of C5: two lesions, one of them without a modality, in two
\* entries, and two measurements.
C5_Witness ==
    /\ OverviewAnswered
    /\ resp.body.lesions = 2
    /\ Len(resp.body.modalities) = 2
    /\ \E i \in 1..2 : resp.body.modalities[i].value = None
    /\ resp.body.measurements = 2
    /\ resp.body.timepoints # <<>>

\* C6: for an existing project without subjects project_analytics answers 200
\* with three counts of 0, two empty distributions, an absent range and an
\* absent average.
C6_NoSubjectsEmptySummary ==
    (resp.op = "project_analytics" /\ resp.id \in projects
        /\ SubtreeSubjects = {}) =>
        /\ resp.status = 200
        /\ resp.body = EmptySummary(resp.id)

\* Witness of C6: such an answer while the other project has measurements.
C6_Witness ==
    /\ OverviewAnswered
    /\ resp.id \in projects
    /\ SubtreeSubjects = {}
    /\ measurements # {}

\* C7: start, end and avg_confidence are absent when the subtree has no
\* measurements (and lesions is 0 and modalities empty when it has no
\* lesions); otherwise they are the least and greatest measured_at and the
\* mean confidence of the measurements of the subtree.
C7_RangeAndAverage ==
    OverviewAnswered =>
        /\ SubtreeLesions = {} =>
              resp.body.lesions = 0 /\ resp.body.modalities = <<>>
        /\ SubtreeMeasurements = {} =>
              /\ resp.body.measured_at_range = [start |-> None, end |-> None]
              /\ resp.body.avg_confidence = None
        /\ SubtreeMeasurements # {} =>
              /\ \E m \in Earliest(SubtreeMeasurements) :
                    resp.body.measured_at_range.start = Some(m.measured_at)
              /\ \E m \in LatestOf(SubtreeMeasurements) :
                    resp.body.measured_at_range.end = Some(m.measured_at)
              /\ resp.body.avg_confidence # None
              /\ resp.body.avg_confidence[1].den > 0
              /\ resp.body.avg_confidence[1].num * Cardinality(SubtreeMeasurements)
                   = SumConfidence(SubtreeMeasurements)
                       * resp.body.avg_confidence[1].den

\* Witness of C7: confidences 1.0 and 0.5 measured at two times give the
\* range 1..2 and the average 0.75.
C7_Witness ==
    /\ OverviewAnswered
    /\ resp.body.measured_at_range = [start |-> Some(1), end |-> Some(2)]
    /\ resp.body.avg_confidence = Some([num |-> 75, den |-> 1])
    /\ Cardinality(projects) = 2

\* C8: even with writes committing between its statements,
\* project_analytics answers 404, without a body, exactly when no project has
\* the id at its existence check: the check answers 404 only for an id no
\* project has and lets a call through only for a project that exists, and a
\* call that is through answers 200 with every field of the summary.
C8_NotFoundIffNoProject ==
    [][/\ (call = Idle /\ resp'.op = "project_analytics" /\ resp'.status = 404) =>
              /\ resp'.id \notin projects
              /\ DOMAIN resp' = {"op", "status", "id"}
              /\ call' = Idle
       /\ (call = Idle /\ call'.op = "project_analytics") =>
              call'.project_id \in projects
       /\ (call.op = "project_analytics" /\ call' = Idle) =>
              /\ resp'.op = "project_analytics"
              /\ resp'.id = call.project_id
              /\ resp'.status = 200
              /\ DOMAIN resp'.body = DOMAIN EmptySummary(resp'.id)
              /\ DOMAIN resp'.body.measured_at_range = {"start", "end"}
              /\ resp'.body.project_id = resp'.id]_vars

\* Witness of C8: 404 for a project that was created and deleted, while
\* another project exists.
C8_Witness ==
    /\ resp.op = "project_analytics" /\ resp.status = 404
    /\ resp.id < nextId.projects
    /\ projects # {}

\* C10: in an answer of project_analytics modalities and timepoints are each
\* in descending order of count.
C10_SortedByCountDesc ==
    OverviewAnswered =>
        /\ Descending(resp.body.modalities)
        /\ Descending(resp.body.timepoints)

\* Witness of C10: both distributions have a group of two before a group of one.
C10_Witness ==
    /\ OverviewAnswered
    /\ Len(resp.body.modalities) = 2
    /\ resp.body.modalities[1].count > resp.body.modalities[2].count
    /\ Len(resp.body.timepoints) = 2
    /\ resp.body.timepoints[1].count > resp.body.timepoints[2].count

\* C11: in an answer of project_analytics the start and the end of
\* measured_at_range are both present or both absent, and start <= end when
\* they are present.
C11_RangeOrdered ==
    OverviewAnswered =>
        LET range == resp.body.measured_at_range
        IN  /\ (range.start = None) <=> (range.end = None)
            /\ (range.start # None /\ range.end # None) =>
                   range.start[1] <= range.end[1]

\* Witness of C11: an answer whose range starts strictly before it ends.
C11_Witness ==
    /\ OverviewAnswered
    /\ resp.body.measured_at_range.start # None
    /\ resp.body.measured_at_range.end # None
    /\ resp.body.measured_at_range.start[1] < resp.body.measured_at_range.end[1]

(* ------------------------------ read-only ----------------------------- *)
AnalyticsOps == {"lesion_change", "project_analytics"}

\* C12: every statement of lesion_change and of project_analytics, whether
\* it answers 404, 200 over no rows or 200 over rows, or only goes on to the
\* next statement, leaves the four tables and their id sequences as they
\* were: the same rows with the same fields.
C12_ReadOnly ==
    [][(call' # call \/ resp'.op \in AnalyticsOps) => UNCHANGED store]_vars

\* Witness of C12: project_analytics has answered over one of the two subjects
\* and its two measurements, all of them still in the tables.
C12_Witness ==
    /\ OverviewAnswered
    /\ resp.body.subjects = 1
    /\ resp.body.measurements = 2
    /\ Cardinality(subjects) = 2
    /\ Cardinality(measurements) = 2

(* ------------------------- racing with writes ------------------------- *)
\* A distribution: a list of (value, count) entries with natural counts.
IsDistribution(rows) ==
    /\ DOMAIN rows = 1..Len(rows)
    /\ \A i \in 1..Len(rows) :
          /\ DOMAIN rows[i] = {"value", "count"}
          /\ rows[i].count \in Nat

\* A summary with every field in its shape.
WellFormedSummary(body) ==
    /\ DOMAIN body = DOMAIN EmptySummary(body.project_id)
    /\ body.subjects \in Nat
    /\ body.lesions \in Nat
    /\ body.measurements \in Nat
    /\ IsDistribution(body.modalities)
    /\ IsDistribution(body.timepoints)
    /\ DOMAIN body.measured_at_range = {"start", "end"}
    /\ (body.measured_at_range.start = None) <=> (body.measured_at_range.end = None)
    /\ \/ body.avg_confidence = None
       \/ /\ Len(body.avg_confidence) = 1
          /\ body.avg_confidence[1].den > 0
          /\ body.avg_confidence[1].num >= 0

\* C13: with writes committing between the statements of a call that has
\* passed its existence check, the call still ends with a 200: that of
\* project_analytics carries a summary with every field in its shape (its
\* values may come from different states of the tables), and that of
\* lesion_change carries the all-absent result when its query finds no
\* measurements of the lesion and otherwise a baseline and a latest taken
\* from the measurements the lesion has at that one query.
C13_RaceWellFormed ==
    [][/\ (call # Idle /\ call' = Idle) =>
              /\ resp'.status = 200
              /\ resp'.op = call.op
       /\ (call.op = "project_analytics" /\ call' = Idle) =>
              /\ resp'.body.project_id = call.project_id
              /\ WellFormedSummary(resp'.body)
       /\ (call.op = "lesion_change" /\ call' = Idle) =>
              LET ms == {m \in measurements : m.lesion_id = call.lesion_id}
              IN  IF ms = {}
                  THEN resp'.body = AllAbsent(call.lesion_id)
                  ELSE \E b \in Earliest(ms), l \in LatestOf(ms) :
                          resp'.body =
                              [lesion_id |-> call.lesion_id,
                               baseline_measured_at |-> Some(b.measured_at),
                               baseline_longest_mm |-> Some(b.longest_diameter_mm),
                               latest_measured_at |-> Some(l.measured_at),
                               latest_longest_mm |-> Some(l.longest_diameter_mm),
                               pct_change_longest |-> PctChange(b, l)]]_vars

\* Witness of C13: project_analytics counted one subject, the project was
\* deleted with its subtree, and the call went on to count no lesion and to
\* answer 200.
C13_Witness ==
    /\ OverviewAnswered
    /\ resp.id \notin projects
    /\ resp.body.subjects = 1
    /\ resp.body.lesions = 0
    /\ nextId.lesions > 1

(* ----------------------------- determinism ---------------------------- *)
\* C14 as stated: a second call with the same identifier against the same
\* tables gives the answer the first call gave.  With requests served one at
\* a time the tables are still those the last answer was computed from, so
\* every answer the queries can give over them is the one in resp: the same
\* order of the entries of modalities and of timepoints, and the same
\* baseline and latest.
C14_Deterministic ==
    /\ OverviewAnswered =>
          /\ \A rows \in ModalityRows(resp.id) : rows = resp.body.modalities
          /\ \A rows \in TimepointRows(resp.id) : rows = resp.body.timepoints
    /\ ChangeAnswered =>
          \A rows \in MeasurementRows(resp.id) :
              LesionChange(resp.id, rows) = resp.body

\* Witness of C14: project_analytics has answered with two modalities of one
\* lesion each, and over the same tables the query can return them in the
\* other order.
C14_Witness ==
    /\ OverviewAnswered
    /\ Len(resp.body.modalities) = 2
    /\ resp.body.modalities[1].count = resp.body.modalities[2].count
    /\ \E rows \in ModalityRows(resp.id) : rows # resp.body.modalities

(* ------------------------ referential integrity ----------------------- *)
\* Every row's parent is in its table.
RefIntegrity ==
    /\ \A s \in subjects : s.project_id \in projects
    /\ \A l \in lesions : Exists(subjects, l.subject_id)
    /\ \A m \in measurements : Exists(lesions, m.lesion_id)

\* The rows of a table that descend from project p.
SubjectsOf(p) == SubjectsUnder({p})
LesionsOf(p) == LesionsUnder(SubjectsOf(p))
MeasurementsOf(p) == MeasurementsUnder(LesionsOf(p))

UniqueTimepoints ==
    \A m, n \in measurements :
        (m.lesion_id = n.lesion_id /\ m.timepoint = n.timepoint) => m = n

Aggregates ==
    <<"subjects_ct", "lesions_ct", "measurements_ct", "modality_rows",
      "timepoint_rows", "min_max", "avg_conf">>

\* C17: a call of project_analytics starts with its existence check, before
\* it holds the result of any aggregate; when the check finds no project the
\* call ends there with 404 and no aggregate is issued; and once the check
\* has passed every further statement of the call is the next aggregate in
\* order, the last of them ending the call with 200: the project is never
\* looked up a second time, even when it is deleted meanwhile.
C17_OneCheckFirst ==
    [][/\ (call = Idle /\ resp'.op = "project_analytics" /\ resp'.status = 404) =>
              /\ resp'.id \notin projects
              /\ call' = Idle
       /\ (call = Idle /\ call' # Idle /\ call'.op = "project_analytics") =>
              /\ call'.project_id \in projects
              /\ DOMAIN call' = {"op", "project_id", "pc"}
              /\ call'.pc = Aggregates[1]
       /\ (call # Idle /\ call.op = "project_analytics" /\ call' # call) =>
              \E i \in 1..Len(Aggregates) :
                 /\ call.pc = Aggregates[i]
                 /\ IF i < Len(Aggregates)
                    THEN /\ DOMAIN call' = DOMAIN call \cup {Aggregates[i]}
                         /\ call'.pc = Aggregates[i + 1]
                         /\ \A f \in DOMAIN call \ {"pc"} : call'[f] = call[f]
                         /\ resp' = resp
                    ELSE /\ call' = Idle
                         /\ resp'.op = "project_analytics"
                         /\ resp'.status = 200]_vars

\* Witness of C17: the project was deleted after the check and the first
\* aggregate, and the call is at its fifth aggregate.
C17_Witness ==
    /\ call # Idle
    /\ call.op = "project_analytics"
    /\ call.pc = "timepoint_rows"
    /\ call.project_id \notin projects
    /\ call.subjects_ct = 1

(* ------------------------- update_measurement ------------------------- *)
\* C18 as stated: update_measurement answers 200 for a measurement that
\* exists and fails only with 404, when it does not exist, or with 409; when
\* it fails the tables are as they were.
C18_UpdateSucceeds ==
    [][resp'.op = "update_measurement" =>
          /\ resp'.status \in {200, 404, 409}
          /\ resp'.status # 200 => UNCHANGED store
          /\ \A m \in measurements :
                update_measurement(m.id) => resp'.status = 200]_vars

\* Witness of C18: update_measurement of a measurement that exists has been
\* answered 500 and the measurement is as it was created.
C18_Witness ==
    /\ resp = Response("update_measurement", 500)
    /\ Cardinality(measurements) = 1
    /\ nextId.measurements = 2

(* ------------------------------ isolation ----------------------------- *)
\* Every answer project_analytics can give for project p over the tables as
\* they are, all its queries reading the same state.
Overviews(p) ==
    {ProjectAnalytics(
         [project_id |-> p,
          subjects_ct |-> Cardinality(ProjectSubjects(p)),
          lesions_ct |-> Cardinality(ProjectLesions(p)),
          measurements_ct |-> Cardinality(ProjectMeasurements(p)),
          modality_rows |-> rm, timepoint_rows |-> rt,
          min_max |-> MinMax(ProjectMeasurements(p))],
         AvgConfidence(ProjectMeasurements(p))) :
       rm \in ModalityRows(p), rt \in TimepointRows(p)}

\* Every answer lesion_change can give for lesion l over the tables as they are.
Changes(l) == {LesionChange(l, rows) : rows \in MeasurementRows(l)}

\* The step is a write in the subtree of project q, or the deletion of q.
WriteUnder(q) ==
    \/ delete_project(q)
    \/ \E dup \in BOOLEAN : create_subject(q, dup)
    \/ \E s \in SubjectsOf(q) :
          \/ delete_subject(s.id)
          \/ \E m \in IsoInputs.modalities, dup \in BOOLEAN :
                create_lesion(s.id, m, dup)
    \/ \E l \in LesionsOf(q) :
          \/ delete_lesion(l.id)
          \/ \E data \in {<<>>} \cup {<<m>> : m \in IsoInputs.modalities} :
                update_lesion(l.id, data)
          \/ \E payload \in IsoInputs.payloads, now \in IsoInputs.times :
                create_measurement(l.id, payload, now)
    \/ \E m \in MeasurementsOf(q) :
          update_measurement(m.id) \/ delete_measurement(m.id)

\* The step is a write to the measurements of lesion k.
WriteMeasurementsOf(k) ==
    \/ \E payload \in IsoInputs.payloads, now \in IsoInputs.times :
          create_measurement(k, payload, now)
    \/ \E m \in {x \in measurements : x.lesion_id = k} :
          update_measurement(m.id) \/ delete_measurement(m.id)

\* C19: a create, update or delete of a subject, lesion or measurement under
\* a project q, or the deletion of q, leaves every other project in place
\* with the same answers of project_analytics; and a write to the
\* measurements of a lesion leaves every other lesion with the same answers
\* of lesion_change.
C19_ProjectIsolation ==
    [][\/ UNCHANGED store
       \/ /\ \A p \in projects :
                \/ p \in projects' /\ Overviews(p)' = Overviews(p)
                \/ \A q \in projects \ {p} : ~WriteUnder(q)
          /\ \A l \in lesions :
                \/ Exists(lesions', l.id) /\ Changes(l.id)' = Changes(l.id)
                \/ \A k \in lesions \ {l} : ~WriteMeasurementsOf(k.id)]_vars

\* Witness of C19: a measurement has just been created under one project
\* while the other project has a subject, a lesion and a measurement too.
C19_Witness ==
    /\ resp = Response("create_measurement", 201)
    /\ Cardinality(projects) = 2
    /\ \A p \in projects : MeasurementsOf(p) # {}

(* --------------------- measured_at, not the label --------------------- *)
\* C20: in an answer of lesion_change over at least one measurement,
\* baseline_measured_at <= latest_measured_at, no measurement of the lesion
\* was measured before the baseline or after the latest, each of the two is
\* a measurement of the lesion, and the timepoint label decides nothing: a
\* measurement labelled "baseline" that was measured after another is not the
\* baseline, and when it was measured after all the others it is the latest.
C20_ByMeasuredAt ==
    (ChangeAnswered /\ ChangeOf # {}) =>
        LET body == resp.body
        IN  /\ body.baseline_measured_at # None
            /\ body.latest_measured_at # None
            /\ body.baseline_measured_at[1] <= body.latest_measured_at[1]
            /\ \A m \in ChangeOf :
                  /\ body.baseline_measured_at[1] <= m.measured_at
                  /\ m.measured_at <= body.latest_measured_at[1]
            /\ \E m \in ChangeOf :
                  /\ body.baseline_measured_at = Some(m.measured_at)
                  /\ body.baseline_longest_mm = Some(m.longest_diameter_mm)
            /\ \E m \in ChangeOf :
                  /\ body.latest_measured_at = Some(m.measured_at)
                  /\ body.latest_longest_mm = Some(m.longest_diameter_mm)
            /\ \A m \in ChangeOf :
                  m.timepoint = "baseline" =>
                     /\ (\E n \in ChangeOf : n.measured_at < m.measured_at) =>
                            body.baseline_measured_at[1] < m.measured_at
                     /\ (\A n \in ChangeOf \ {m} : n.measured_at < m.measured_at) =>
                            /\ body.latest_measured_at = Some(m.measured_at)
                            /\ body.latest_longest_mm = Some(m.longest_diameter_mm)

\* Witness of C20: the measurement labelled "week_6" (24 mm) was measured
\* before the one labelled "baseline" (20 mm), and the answer has the first
\* as baseline and the second as latest.
C20_Witness ==
    /\ ChangeAnswered
    /\ Cardinality(ChangeOf) = 2
    /\ \E m, n \in ChangeOf :
          /\ m.timepoint = "baseline" /\ m.longest_diameter_mm = 20
          /\ n.timepoint = "week_6"
          /\ n.measured_at < m.measured_at
          /\ resp.body.baseline_measured_at = Some(n.measured_at)
          /\ resp.body.baseline_longest_mm = Some(24)
          /\ resp.body.latest_measured_at = Some(m.measured_at)
          /\ resp.body.latest_longest_mm = Some(20)

====
